---------------------------- MODULE Spec2Model ----------------------------
(***************************************************************************)
(* Content-addressed file store of file-storage-http-api (src/storage.py). *)
(*                                                                         *)
(* The model follows class Storage: the SHA-1 object held by the instance, *)
(* the shard directories under the storage root, and the three operations  *)
(* upload_file, download_file and remove_file.                             *)
(*                                                                         *)
(* Strings (file names, hashes, extensions) are sequences of one-character *)
(* strings; byte strings are sequences of small integers.  The digest is a *)
(* positional fold of the bytes fed to the hash object that is injective   *)
(* on every byte stream the bounds let a run feed, rendered as DigestLen   *)
(* lowercase hexadecimal characters.                                       *)
(*                                                                         *)
(* Spec     one server process: the coroutines of Storage never suspend    *)
(*          (they await only each other and do blocking file I/O), so on   *)
(*          one event loop every operation runs to completion.             *)
(* SpecHttp the same process, seen at the routes of main.py: is_hash, the   *)
(*          call of the Storage method, the status of the response.        *)
(* SpecConc several server processes on one storage root, each with the    *)
(*          Storage that main.py constructs when it is imported.  Nothing  *)
(*          in Storage takes a lock, so the processes interleave at every  *)
(*          file system call.                                              *)
(***************************************************************************)
EXTENDS Integers, Sequences, FiniteSets, TLC

(***************************************************************************)
(* Bounds of the model.                                                    *)
(***************************************************************************)
MaxLen == 1
MaxOps == 3
DigestLen == 3

(***************************************************************************)
(* Program constants.                                                      *)
(***************************************************************************)
CHUNK_SIZE == 131072
dir_len == 2

Byte == {0}
Contents == UNION {[1..n -> Byte] : n \in 0..MaxLen}
Names == {<<"a", ".", "t">>, <<"r">>}
Procs == {1, 2}
HexDigits == <<"0", "1", "2", "3", "4", "5", "6", "7",
               "8", "9", "a", "b", "c", "d", "e", "f">>
Faults == {"none", "open", "write"}

VARIABLES
    fs,     \* the tree under self.path: shard directory name -> (file name -> bytes)
    hsh,    \* self.hsh of each process: the running state of its one SHA-1 object
    last,   \* the last completed operation: its arguments and its outcome
    nops,   \* number of operations started
    proc,   \* SpecConc: each process's operation, its locals and its place in it
    http    \* SpecHttp: the last request a route of main.py answered

vars == <<fs, hsh, last, nops, proc, http>>

Min(a, b) == IF a <= b THEN a ELSE b

RECURSIVE Pow(_, _)
Pow(b, e) == IF e = 0 THEN 1 ELSE b * Pow(b, e - 1)

(***************************************************************************)
(* hashlib: update folds the bytes into the running state, hexdigest       *)
(* renders the state and leaves it as it is.                               *)
(***************************************************************************)
sha1 == 0

RECURSIVE update(_, _)
update(state, data) ==
    IF Len(data) = 0 THEN state
    ELSE update((state * 3 + Head(data) + 1) % Pow(16, DigestLen), Tail(data))

hexdigest(state) ==
    [i \in 1..DigestLen |->
        HexDigits[((state \div Pow(16, DigestLen - i)) % 16) + 1]]

(***************************************************************************)
(* iter(lambda: f.read(CHUNK_SIZE), b''): the chunks of a byte string.     *)
(***************************************************************************)
RECURSIVE Chunks(_)
Chunks(data) ==
    IF Len(data) = 0 THEN <<>>
    ELSE LET n == Min(CHUNK_SIZE, Len(data))
         IN  <<SubSeq(data, 1, n)>> \o Chunks(SubSeq(data, n + 1, Len(data)))

RECURSIVE Concat(_)
Concat(chunks) ==
    IF Len(chunks) = 0 THEN <<>> ELSE Head(chunks) \o Concat(Tail(chunks))

(***************************************************************************)
(* get_file_hash: the state of the instance's hash object after the        *)
(* chunks of the file were fed to it.  The object is the one made in       *)
(* __init__; it is not renewed.                                            *)
(***************************************************************************)
RECURSIVE FeedChunks(_, _)
FeedChunks(state, chunks) ==
    IF Len(chunks) = 0 THEN state
    ELSE FeedChunks(update(state, Head(chunks)), Tail(chunks))

get_file_hash(state, data) == FeedChunks(state, Chunks(data))

(***************************************************************************)
(* str.rpartition('.'): <<head, sep, tail>>, split at the last '.'; with   *)
(* no '.' the head and the separator are empty and the tail is the string. *)
(***************************************************************************)
Dots(s) == {i \in 1..Len(s) : s[i] = "."}

rpartition(s) ==
    IF Dots(s) = {} THEN << <<>>, <<>>, s >>
    ELSE LET k == CHOOSE i \in Dots(s) : \A j \in Dots(s) : j <= i
         IN  <<SubSeq(s, 1, k - 1), <<".">>, SubSeq(s, k + 1, Len(s))>>

\* '.'.join((file_hash, file_extension))
join(file_hash, file_extension) == file_hash \o <<".">> \o file_extension

\* get_file_directory: file_hash[:dir_len], below self.path
get_file_directory(file_hash) == SubSeq(file_hash, 1, Min(dir_len, Len(file_hash)))

(***************************************************************************)
(* get_file_extension: the files of the shard directory whose name before  *)
(* the last '.' is the hash.  The method returns the extension of the      *)
(* first one in iterdir() order, which the file system chooses: any of     *)
(* them can be the result.  No directory, or no such file: the empty set,  *)
(* where the method raises FileNotFoundError.                              *)
(***************************************************************************)
Matching(tree, file_hash) ==
    LET file_dir == get_file_directory(file_hash)
    IN  IF file_dir \notin DOMAIN tree THEN {}
        ELSE {f \in DOMAIN tree[file_dir] : rpartition(f)[1] = file_hash}

get_file_extension(tree, file_hash) ==
    {rpartition(f)[3] : f \in Matching(tree, file_hash)}

(***************************************************************************)
(* File system primitives on the tree.                                     *)
(***************************************************************************)
EmptyDir == [f \in {} |-> <<>>]

mkdir(tree, d) == (d :> EmptyDir) @@ tree

WriteFile(tree, d, f, data) == [tree EXCEPT ![d] = (f :> data) @@ tree[d]]

unlink(tree, d, f) ==
    [tree EXCEPT ![d] = [g \in DOMAIN tree[d] \ {f} |-> tree[d][g]]]

rmdir(tree, d) == [e \in DOMAIN tree \ {d} |-> tree[e]]

NoPath == << <<>>, <<>> >>
NoOp == [op |-> "none", hash |-> <<>>, name |-> <<>>, bytes |-> <<>>,
         present |-> FALSE, disk |-> <<>>, fault |-> "none",
         result |-> "none", path |-> NoPath]

Idle == [pc |-> "idle", op |-> "none", hash |-> <<>>, name |-> <<>>,
         bytes |-> <<>>, present |-> FALSE, disk |-> <<>>, ext |-> <<>>,
         k |-> 0, linked |-> FALSE, fault |-> "none", result |-> "none",
         path |-> NoPath]

NoRequest == [op |-> "none", hash |-> <<>>, called |-> FALSE, status |-> 0]

Init ==
    /\ fs = [d \in {} |-> EmptyDir]
    /\ hsh = [p \in Procs |-> sha1]
    /\ last = NoOp
    /\ nops = 0
    /\ proc = [p \in Procs |-> Idle]
    /\ http = NoRequest

(***************************************************************************)
(* upload_file (one process, run to completion).                           *)
(*   bytes    the uploaded content, file.file                              *)
(*   name     file.filename                                                *)
(*   present  whether the server's working directory holds a file `name`   *)
(*   disk     the bytes of that file: get_file_hash opens file.filename    *)
(*   fault    the I/O failure the write meets: none, open() raising, or    *)
(*            f.write() raising after open() has made the file             *)
(***************************************************************************)
UploadWritten(bytes, fault) ==
    \* what the file holds when the with-block is left; a failing f.write
    \* leaves the chunks written before it (here: before the last one)
    IF fault = "write" THEN Concat(SubSeq(Chunks(bytes), 1, Len(Chunks(bytes)) - 1))
    ELSE bytes

\* upload_file that opens the file for writing before it looks for a duplicate
UploadEffectWriteFirst(tree, file_hash, name, bytes, fault) ==
    LET file_extension == rpartition(name)[3]
        file_dir == get_file_directory(file_hash)
        file_name == join(file_hash, file_extension)
        made == IF file_dir \notin DOMAIN tree THEN mkdir(tree, file_dir) ELSE tree
    IN  IF file_dir \in DOMAIN tree /\ file_name \in DOMAIN tree[file_dir]
        THEN <<WriteFile(tree, file_dir, file_name, bytes), "ValueError">>
        ELSE IF fault = "open" THEN <<made, "OSError">>
        ELSE IF fault = "write"
        THEN <<WriteFile(made, file_dir, file_name, UploadWritten(bytes, fault)),
               "OSError">>
        ELSE <<WriteFile(made, file_dir, file_name, bytes), "ok">>

UploadEffect(tree, file_hash, name, bytes, fault) ==
    \* lines 90-109: <<tree afterwards, result>>
    LET file_extension == rpartition(name)[3]
        file_dir == get_file_directory(file_hash)
        file_name == join(file_hash, file_extension)
        made == IF file_dir \notin DOMAIN tree THEN mkdir(tree, file_dir) ELSE tree
    IN  IF file_dir \in DOMAIN tree /\ file_name \in DOMAIN tree[file_dir]
        THEN <<tree, "ValueError">>
        ELSE IF fault = "open" THEN <<made, "OSError">>
        ELSE IF fault = "write"
        THEN <<WriteFile(made, file_dir, file_name, UploadWritten(bytes, fault)),
               "OSError">>
        ELSE <<WriteFile(made, file_dir, file_name, bytes), "ok">>

upload_file(p, bytes, name, present, disk, fault) ==
    /\ nops < MaxOps
    /\ nops' = nops + 1
    /\ UNCHANGED proc
    /\ IF ~present
       THEN \* open(file.filename) raises FileNotFoundError
            /\ UNCHANGED <<fs, hsh>>
            /\ last' = [op |-> "upload", hash |-> <<>>, name |-> name,
                        bytes |-> bytes, present |-> FALSE, disk |-> <<>>,
                        fault |-> "none", result |-> "FileNotFoundError",
                        path |-> NoPath]
       ELSE LET state == get_file_hash(hsh[p], disk)
                file_hash == hexdigest(state)
                eff == UploadEffect(fs, file_hash, name, bytes, fault)
            IN  /\ hsh' = [hsh EXCEPT ![p] = state]
                /\ fs' = eff[1]
                /\ last' = [op |-> "upload", hash |-> file_hash, name |-> name,
                            bytes |-> bytes, present |-> TRUE, disk |-> disk,
                            fault |-> IF eff[2] = "ValueError" THEN "none" ELSE fault,
                            result |-> eff[2],
                            path |-> IF eff[2] = "ok"
                                     THEN <<get_file_directory(file_hash),
                                            join(file_hash, rpartition(name)[3])>>
                                     ELSE NoPath]

(***************************************************************************)
(* download_file: the path of the file, or FileNotFoundError.              *)
(***************************************************************************)
DownloadResults(tree, file_hash) ==
    \* the set of <<result, path>> the call can end with
    IF get_file_extension(tree, file_hash) = {}
    THEN {<<"FileNotFoundError", NoPath>>}
    ELSE {LET file_dir == get_file_directory(file_hash)
              file_name == join(file_hash, file_extension)
          IN  IF file_name \in DOMAIN tree[file_dir]
              THEN <<"ok", <<file_dir, file_name>>>>
              ELSE <<"FileNotFoundError", NoPath>>
          : file_extension \in get_file_extension(tree, file_hash)}

download_file(p, file_hash) ==
    /\ nops < MaxOps
    /\ nops' = nops + 1
    /\ UNCHANGED <<fs, hsh, proc>>
    /\ \E r \in DownloadResults(fs, file_hash) :
          last' = [op |-> "download", hash |-> file_hash, name |-> <<>>,
                   bytes |-> <<>>, present |-> FALSE, disk |-> <<>>,
                   fault |-> "none", result |-> r[1], path |-> r[2]]

\* remove_file that deletes the directory without looking whether it is empty
RemoveEffectNoEmptyCheck(tree, file_hash, file_extension) ==
    LET file_dir == get_file_directory(file_hash)
        file_name == join(file_hash, file_extension)
    IN  IF file_dir \in DOMAIN tree /\ file_name \in DOMAIN tree[file_dir]
        THEN <<rmdir(unlink(tree, file_dir, file_name), file_dir), "ok">>
        ELSE <<tree, "FileNotFoundError">>

(***************************************************************************)
(* remove_file: unlink the file, then rmdir the directory if it is empty.  *)
(***************************************************************************)
RemoveEffect(tree, file_hash, file_extension) ==
    \* lines 140-151 for the extension get_file_extension returned
    LET file_dir == get_file_directory(file_hash)
        file_name == join(file_hash, file_extension)
    IN  IF file_dir \in DOMAIN tree /\ file_name \in DOMAIN tree[file_dir]
        THEN LET gone == unlink(tree, file_dir, file_name)
             IN  IF DOMAIN gone[file_dir] = {}
                 THEN <<rmdir(gone, file_dir), "ok">>
                 ELSE <<gone, "ok">>
        ELSE <<tree, "FileNotFoundError">>

RemoveResults(tree, file_hash) ==
    \* the set of <<tree afterwards, result>> the call can end with
    IF get_file_extension(tree, file_hash) = {}
    THEN {<<tree, "FileNotFoundError">>}
    ELSE {RemoveEffect(tree, file_hash, file_extension)
          : file_extension \in get_file_extension(tree, file_hash)}

remove_file(p, file_hash) ==
    /\ nops < MaxOps
    /\ nops' = nops + 1
    /\ UNCHANGED <<hsh, proc>>
    /\ \E r \in RemoveResults(fs, file_hash) :
          /\ fs' = r[1]
          /\ last' = [op |-> "remove", hash |-> file_hash, name |-> <<>>,
                      bytes |-> <<>>, present |-> FALSE, disk |-> <<>>,
                      fault |-> "none", result |-> r[2], path |-> NoPath]

(***************************************************************************)
(* The hashes a client asks for: those of the files in the store, the one  *)
(* the last operation was about, and one that was never stored.            *)
(***************************************************************************)
Stems(tree) == {rpartition(f)[1] : f \in UNION {DOMAIN tree[d] : d \in DOMAIN tree}}

Asked == (Stems(fs) \cup {last.hash, hexdigest(Pow(16, DigestLen) - 1)}) \ {<<>>}

UploadNoFile == \E bytes \in Contents, name \in Names :
    upload_file(1, bytes, name, FALSE, <<>>, "none") /\ UNCHANGED http

UploadFile == \E bytes \in Contents, name \in Names, disk \in Contents, fault \in Faults :
    /\ fault = "write" => Len(Chunks(bytes)) > 0
    /\ upload_file(1, bytes, name, TRUE, disk, fault)
    /\ UNCHANGED http

DownloadFile == \E file_hash \in Asked : download_file(1, file_hash) /\ UNCHANGED http

RemoveFile == \E file_hash \in Asked : remove_file(1, file_hash) /\ UNCHANGED http

Next == UploadNoFile \/ UploadFile \/ DownloadFile \/ RemoveFile

Spec == Init /\ [][Next]_vars

(***************************************************************************)
(* SpecHttp: the routes of main.py around the same methods.                *)
(***************************************************************************)
\* int(file_hash, base=16): the value, or -1 where int raises ValueError
RECURSIVE HexValue(_, _)
HexValue(s, acc) ==
    IF Len(s) = 0 THEN acc
    ELSE IF \E i \in 1..16 : HexDigits[i] = Head(s)
    THEN HexValue(Tail(s), acc * 16 + (CHOOSE i \in 1..16 : HexDigits[i] = Head(s)) - 1)
    ELSE -1

int16(s) == IF Len(s) = 0 THEN -1 ELSE HexValue(s, 0)

\* is_hash: bool(int(file_hash, base=16)), or the 422 of the ValueError
is_hash(file_hash) ==
    IF int16(file_hash) = -1 THEN "HTTPException"
    ELSE IF int16(file_hash) # 0 THEN "True"
    ELSE "False"

\* the status the route gives the outcome of the Storage method
UploadStatus(result) ==
    IF result = "ok" THEN 201
    ELSE IF result = "ValueError" THEN 409
    ELSE 404

LookupStatus(result) ==
    IF result = "ok" THEN 200
    ELSE IF result = "FileNotFoundError" THEN 404
    ELSE 500

\* a request the route answers without calling Storage
Answered(op, file_hash, status) ==
    /\ nops < MaxOps
    /\ nops' = nops + 1
    /\ http' = [op |-> op, hash |-> file_hash, called |-> FALSE, status |-> status]
    /\ UNCHANGED <<fs, hsh, last, proc>>

\* main.upload_file
HttpUpload == \E bytes \in Contents, name \in Names, present \in BOOLEAN,
                 disk \in Contents, fault \in Faults :
    /\ ~present => disk = <<>> /\ fault = "none"
    /\ fault = "write" => Len(Chunks(bytes)) > 0
    /\ upload_file(1, bytes, name, present, disk, fault)
    /\ http' = [op |-> "upload", hash |-> last'.hash, called |-> TRUE,
                status |-> UploadStatus(last'.result)]

\* main.download_file / main.remove_file: `if await is_hash(file_hash):`
\* guards the call and the return; when it is False the route returns None,
\* which goes out with the route's default status 200
HttpLookup(op, file_hash) ==
    IF is_hash(file_hash) = "HTTPException" THEN Answered(op, file_hash, 422)
    ELSE IF is_hash(file_hash) = "False" THEN Answered(op, file_hash, 200)
    ELSE /\ IF op = "download" THEN download_file(1, file_hash)
            ELSE remove_file(1, file_hash)
         /\ http' = [op |-> op, hash |-> file_hash, called |-> TRUE,
                     status |-> LookupStatus(last'.result)]

\* the file_hash strings of the requests: those of Asked, the all-zero
\* hash, one shorter than dir_len, and one that is not hexadecimal
HttpAsked == Asked \cup {hexdigest(0), <<"1">>, <<"g">>}

HttpDownload == \E file_hash \in HttpAsked : HttpLookup("download", file_hash)

HttpRemove == \E file_hash \in HttpAsked : HttpLookup("remove", file_hash)

NextHttp == HttpUpload \/ HttpDownload \/ HttpRemove

SpecHttp == Init /\ [][NextHttp]_vars

(***************************************************************************)
(* SpecConc: the same methods, one file system call per step.              *)
(***************************************************************************)
Max(a, b) == IF a >= b THEN a ELSE b

\* f.write(chunk) at a file offset; a gap before the offset reads as zeros
WriteAt(data, offset, chunk) ==
    [i \in 1..Max(Len(data), offset + Len(chunk)) |->
        IF i > offset /\ i <= offset + Len(chunk) THEN chunk[i - offset]
        ELSE IF i <= Len(data) THEN data[i]
        ELSE 0]

FileDir(p) == get_file_directory(proc[p].hash)
FileName(p) == join(proc[p].hash, proc[p].ext)
FileExists(p) == FileDir(p) \in DOMAIN fs /\ FileName(p) \in DOMAIN fs[FileDir(p)]

\* the operation of p ends (its file, if it opened one, is closed): what it
\* returns or raises
Finish(p, result, path) ==
    [proc EXCEPT ![p].pc = "done", ![p].result = result, ![p].path = path,
                 ![p].linked = FALSE, ![p].k = 0]

Goto(p, pc) == [proc EXCEPT ![p].pc = pc]

Ready(p) == proc[p].pc \in {"idle", "done"} /\ nops < MaxOps

\* upload_file line 87: get_file_hash, then lines 90-93
CUploadHash(p, bytes, name, present, disk) ==
    /\ Ready(p)
    /\ nops' = nops + 1
    /\ UNCHANGED <<fs, last, http>>
    /\ IF ~present
       THEN /\ UNCHANGED hsh
            /\ proc' = [proc EXCEPT ![p] =
                  [Idle EXCEPT !.pc = "done", !.op = "upload", !.name = name,
                               !.bytes = bytes, !.result = "FileNotFoundError"]]
       ELSE LET state == get_file_hash(hsh[p], disk)
            IN  /\ hsh' = [hsh EXCEPT ![p] = state]
                /\ proc' = [proc EXCEPT ![p] =
                      [Idle EXCEPT !.pc = "u_dir_exists", !.op = "upload",
                                   !.name = name, !.bytes = bytes,
                                   !.present = TRUE, !.disk = disk,
                                   !.hash = hexdigest(state),
                                   !.ext = rpartition(name)[3]]]

\* line 95: file_dir.exists()
CUploadDirExists(p) ==
    /\ proc[p].pc = "u_dir_exists"
    /\ proc' = Goto(p, IF FileDir(p) \in DOMAIN fs THEN "u_file_exists" ELSE "u_mkdir")
    /\ UNCHANGED <<fs, hsh, last, http, nops>>

\* line 96: file_dir.mkdir(), FileExistsError when the directory is there
CUploadMkdir(p) ==
    /\ proc[p].pc = "u_mkdir"
    /\ IF FileDir(p) \in DOMAIN fs
       THEN /\ proc' = Finish(p, "FileExistsError", NoPath)
            /\ UNCHANGED fs
       ELSE /\ fs' = mkdir(fs, FileDir(p))
            /\ proc' = Goto(p, "u_open")
    /\ UNCHANGED <<hsh, last, http, nops>>

\* line 98: file_path.exists()
CUploadFileExists(p) ==
    /\ proc[p].pc = "u_file_exists"
    /\ proc' = IF FileExists(p) THEN Finish(p, "ValueError", NoPath)
               ELSE Goto(p, "u_open")
    /\ UNCHANGED <<fs, hsh, last, http, nops>>

\* line 104: open(file_path, mode='wb') makes the file or truncates it
CUploadOpen(p, fault) ==
    /\ proc[p].pc = "u_open"
    /\ IF fault = "open"
       THEN /\ proc' = [Finish(p, "OSError", NoPath) EXCEPT ![p].fault = "open"]
            /\ UNCHANGED fs
       ELSE IF FileDir(p) \notin DOMAIN fs
       THEN /\ proc' = Finish(p, "FileNotFoundError", NoPath)
            /\ UNCHANGED fs
       ELSE /\ fs' = WriteFile(fs, FileDir(p), FileName(p), <<>>)
            /\ proc' = IF Len(Chunks(proc[p].bytes)) = 0
                       THEN Finish(p, "ok", <<FileDir(p), FileName(p)>>)
                       ELSE [proc EXCEPT ![p].pc = "u_write", ![p].k = 1,
                                         ![p].linked = TRUE]
    /\ UNCHANGED <<hsh, last, http, nops>>

\* lines 105-106: f.write(chunk) for chunk k; after the last one, line 109
CUploadWrite(p, fault) ==
    /\ proc[p].pc = "u_write"
    /\ LET chunks == Chunks(proc[p].bytes)
           k == proc[p].k
       IN  IF fault = "write"
           THEN /\ proc' = [Finish(p, "OSError", NoPath) EXCEPT ![p].fault = "write"]
                /\ UNCHANGED fs
           ELSE /\ fs' = IF proc[p].linked
                         THEN WriteFile(fs, FileDir(p), FileName(p),
                                  WriteAt(fs[FileDir(p)][FileName(p)],
                                          (k - 1) * CHUNK_SIZE, chunks[k]))
                         ELSE fs
                /\ proc' = IF k = Len(chunks)
                           THEN Finish(p, "ok", <<FileDir(p), FileName(p)>>)
                           ELSE [proc EXCEPT ![p].k = k + 1]
    /\ UNCHANGED <<hsh, last, http, nops>>

\* download_file / remove_file: get_file_extension lists the directory
CList(p, op, file_hash) ==
    /\ Ready(p)
    /\ nops' = nops + 1
    /\ UNCHANGED <<fs, hsh, last, http>>
    /\ IF get_file_extension(fs, file_hash) = {}
       THEN proc' = [proc EXCEPT ![p] =
               [Idle EXCEPT !.pc = "done", !.op = op, !.hash = file_hash,
                            !.result = "FileNotFoundError"]]
       ELSE \E file_extension \in get_file_extension(fs, file_hash) :
               proc' = [proc EXCEPT ![p] =
                  [Idle EXCEPT !.pc = IF op = "download" THEN "d_exists" ELSE "r_exists",
                               !.op = op, !.hash = file_hash,
                               !.ext = file_extension]]

\* download_file line 123: file_path.exists()
CDownloadExists(p) ==
    /\ proc[p].pc = "d_exists"
    /\ proc' = IF FileExists(p) THEN Finish(p, "ok", <<FileDir(p), FileName(p)>>)
               ELSE Finish(p, "FileNotFoundError", NoPath)
    /\ UNCHANGED <<fs, hsh, last, http, nops>>

\* remove_file line 142: file_path.exists() and file_path.is_file()
CRemoveExists(p) ==
    /\ proc[p].pc = "r_exists"
    /\ proc' = IF FileExists(p) THEN Goto(p, "r_unlink")
               ELSE Finish(p, "FileNotFoundError", NoPath)
    /\ UNCHANGED <<fs, hsh, last, http, nops>>

\* line 143: file_path.unlink(); a process that has the file open keeps
\* writing to it, out of sight
CRemoveUnlink(p) ==
    /\ proc[p].pc = "r_unlink"
    /\ IF FileExists(p)
       THEN /\ fs' = unlink(fs, FileDir(p), FileName(p))
            /\ proc' = [q \in Procs |->
                  IF q = p THEN [proc[p] EXCEPT !.pc = "r_is_empty"]
                  ELSE IF /\ proc[q].linked /\ proc[q].pc = "u_write"
                          /\ FileDir(q) = FileDir(p) /\ FileName(q) = FileName(p)
                       THEN [proc[q] EXCEPT !.linked = FALSE]
                       ELSE proc[q]]
       ELSE /\ proc' = Finish(p, "FileNotFoundError", NoPath)
            /\ UNCHANGED fs
    /\ UNCHANGED <<hsh, last, http, nops>>

\* line 146: file_dir.is_dir() and not any(file_dir.iterdir())
CRemoveIsEmpty(p) ==
    /\ proc[p].pc = "r_is_empty"
    /\ proc' = IF FileDir(p) \in DOMAIN fs /\ DOMAIN fs[FileDir(p)] = {}
               THEN Goto(p, "r_rmdir")
               ELSE Finish(p, "ok", NoPath)
    /\ UNCHANGED <<fs, hsh, last, http, nops>>

\* line 147: file_dir.rmdir(), OSError when the directory is not empty
CRemoveRmdir(p) ==
    /\ proc[p].pc = "r_rmdir"
    /\ IF FileDir(p) \notin DOMAIN fs
       THEN /\ proc' = Finish(p, "FileNotFoundError", NoPath)
            /\ UNCHANGED fs
       ELSE IF DOMAIN fs[FileDir(p)] # {}
       THEN /\ proc' = Finish(p, "OSError", NoPath)
            /\ UNCHANGED fs
       ELSE /\ fs' = rmdir(fs, FileDir(p))
            /\ proc' = Finish(p, "ok", NoPath)
    /\ UNCHANGED <<hsh, last, http, nops>>

\* the hashes a client asks for in SpecConc
CAsked ==
    (Stems(fs) \cup {proc[p].hash : p \in Procs}
               \cup {hexdigest(Pow(16, DigestLen) - 1)}) \ {<<>>}

CUploadNoFile == \E p \in Procs, bytes \in Contents, name \in Names :
    CUploadHash(p, bytes, name, FALSE, <<>>)

CUploadFile == \E p \in Procs, bytes \in Contents, name \in Names, disk \in Contents :
    CUploadHash(p, bytes, name, TRUE, disk)

CUploadStep == \E p \in Procs :
    \/ CUploadDirExists(p)
    \/ CUploadMkdir(p)
    \/ CUploadFileExists(p)
    \/ \E fault \in {"none", "open"} : CUploadOpen(p, fault)
    \/ \E fault \in {"none", "write"} : CUploadWrite(p, fault)

CDownloadStep == \E p \in Procs :
    \/ \E file_hash \in CAsked : CList(p, "download", file_hash)
    \/ CDownloadExists(p)

CRemoveStep == \E p \in Procs :
    \/ \E file_hash \in CAsked : CList(p, "remove", file_hash)
    \/ CRemoveExists(p)
    \/ CRemoveUnlink(p)
    \/ CRemoveIsEmpty(p)
    \/ CRemoveRmdir(p)

NextConc == CUploadNoFile \/ CUploadFile \/ CUploadStep \/ CDownloadStep \/ CRemoveStep

SpecConc == Init /\ [][NextConc]_vars

(***************************************************************************)
(* Vocabulary of the properties.                                           *)
(***************************************************************************)
\* the digest of a byte string: what a hash object fed only that string gives
Digest(data) == hexdigest(get_file_hash(sha1, data))

\* the step just taken completed an operation
Completed == nops' = nops + 1

\* the files of hash h in its shard directory
Objects(tree, h) == Matching(tree, h)

\* every way Download(h) can end in this tree is FileNotFoundError / is success
DownloadNotFound(tree, h) ==
    \A r \in DownloadResults(tree, h) : r[1] = "FileNotFoundError"
DownloadSucceeds(tree, h) ==
    \A r \in DownloadResults(tree, h) : r[1] = "ok"
RemoveNotFound(tree, h) ==
    \A r \in RemoveResults(tree, h) : r[2] = "FileNotFoundError"

\* an upload whose hashed file is the uploaded content and that meets no I/O fault
CleanUpload(r) ==
    r.op = "upload" /\ r.present /\ r.disk = r.bytes /\ r.fault = "none"

(***************************************************************************)
(* C1  Duplicate rejection: when an Upload of content b under a name has   *)
(* succeeded and the next operation is an Upload of the same content under *)
(* the same name, the second is rejected with DuplicateObject (ValueError) *)
(* and the store then holds exactly one object for the hash of b.          *)
(***************************************************************************)
C1_DuplicateRejection ==
    [][(/\ CleanUpload(last) /\ last.result = "ok"
        /\ Completed
        /\ CleanUpload(last')
        /\ last'.bytes = last.bytes /\ last'.name = last.name)
       => (/\ last'.result = "ValueError"
           /\ Cardinality(Objects(fs', Digest(last.bytes))) = 1)]_vars

(***************************************************************************)
(* C2  In every reachable store no shard directory holds two files whose   *)
(* name-stem is the same hash.                                             *)
(***************************************************************************)
C2_OneObjectPerHash ==
    \A d \in DOMAIN fs : \A f, g \in DOMAIN fs[d] :
        rpartition(f)[1] = rpartition(g)[1] => f = g

(***************************************************************************)
(* C3  Hash determinism: in every reachable state, for every byte string   *)
(* b, the digest the Store computes for b now is the digest it computed    *)
(* for b before any other hash computation; earlier computations do not    *)
(* change a later result.                                                  *)
(***************************************************************************)
C3_HashDeterminism ==
    \A b \in Contents : hexdigest(get_file_hash(hsh[1], b)) = Digest(b)

(***************************************************************************)
(* C4  Content-address integrity: the hash a successful Upload returns is  *)
(* the digest of the bytes it wrote, and every stored object's name-stem   *)
(* is the digest of the object's own content.                              *)
(***************************************************************************)
C4_ContentAddressIntegrity ==
    /\ (last.op = "upload" /\ last.result = "ok") => last.hash = Digest(last.bytes)
    /\ \A d \in DOMAIN fs : \A f \in DOMAIN fs[d] :
          rpartition(f)[1] = Digest(fs[d][f])

(***************************************************************************)
(* C5  Round trip: when Upload(b, name) has succeeded with hash h, for a   *)
(* name that has an extension, and the next operation is Download(h), the  *)
(* Download succeeds and returns shardDir(h)/(h.extension of name), a file *)
(* whose bytes are b.                                                      *)
(***************************************************************************)
C5_RoundTrip ==
    [][(/\ last.op = "upload" /\ last.result = "ok" /\ Dots(last.name) # {}
        /\ Completed
        /\ last'.op = "download" /\ last'.hash = last.hash)
       => LET h == last.hash
              d == get_file_directory(h)
              f == join(h, rpartition(last.name)[3])
          IN  /\ last'.result = "ok"
              /\ last'.path = <<d, f>>
              /\ fs'[d][f] = last.bytes]_vars

(***************************************************************************)
(* C6  Clean removal: after Remove(h) has succeeded, Download(h) and       *)
(* Remove(h) both end with NotFound (FileNotFoundError), and the shard     *)
(* directory of h is gone unless it holds another object.                  *)
(***************************************************************************)
C6_CleanRemoval ==
    (last.op = "remove" /\ last.result = "ok")
    => LET h == last.hash
           d == get_file_directory(h)
       IN  /\ DownloadNotFound(fs, h)
           /\ RemoveNotFound(fs, h)
           /\ d \in DOMAIN fs => DOMAIN fs[d] # {}

(***************************************************************************)
(* C7  Between operations every shard directory that exists holds at least *)
(* one stored object, whether the last operation succeeded or failed.      *)
(***************************************************************************)
C7_ShardDirIffNonEmpty ==
    \A d \in DOMAIN fs : DOMAIN fs[d] # {}

(***************************************************************************)
(* C8  Concurrent upload race: when two processes have each run one Upload *)
(* of the same content under the same name on a store that was empty, with *)
(* no I/O fault, the store holds exactly one object for the hash, the      *)
(* object's content is complete, and at most one of the two Uploads        *)
(* returned success.                                                       *)
(***************************************************************************)
C8_ConcurrentUploadRace ==
    (/\ nops = 2
     /\ \A p \in Procs : proc[p].pc = "done" /\ CleanUpload(proc[p])
     /\ proc[1].bytes = proc[2].bytes
     /\ proc[1].name = proc[2].name)
    => LET h == Digest(proc[1].bytes)
           d == get_file_directory(h)
       IN  /\ Cardinality(Objects(fs, h)) = 1
           /\ \A f \in Objects(fs, h) : fs[d][f] = proc[1].bytes
           /\ ~(proc[1].result = "ok" /\ proc[2].result = "ok")

(***************************************************************************)
(* C9  Shard isolation: an Upload that meets no I/O fault, into a shard    *)
(* directory that exists and holds no file of its hash, succeeds, puts its *)
(* file into that directory and leaves the files there as they were; a     *)
(* successful Remove(h1) leaves every file of another hash in the shard    *)
(* directory in place with its content, so the directory stays and         *)
(* Download of the other hash succeeds afterwards.                         *)
(***************************************************************************)
C9_ShardIsolation ==
    [][/\ (/\ Completed /\ last'.op = "upload" /\ last'.present
           /\ last'.fault = "none"
           /\ get_file_directory(last'.hash) \in DOMAIN fs
           /\ Objects(fs, last'.hash) = {})
          => LET h == last'.hash
                 d == get_file_directory(h)
                 f == join(h, rpartition(last'.name)[3])
             IN  /\ last'.result = "ok"
                 /\ d \in DOMAIN fs'
                 /\ DOMAIN fs'[d] = DOMAIN fs[d] \cup {f}
                 /\ fs'[d][f] = last'.bytes
                 /\ \A g \in DOMAIN fs[d] : fs'[d][g] = fs[d][g]
       /\ (Completed /\ last'.op = "remove" /\ last'.result = "ok")
          => LET h1 == last'.hash
                 d == get_file_directory(h1)
             IN  \A g \in DOMAIN fs[d] :
                    rpartition(g)[1] # h1
                    => /\ d \in DOMAIN fs'
                       /\ g \in DOMAIN fs'[d]
                       /\ fs'[d][g] = fs[d][g]
                       /\ DownloadSucceeds(fs', rpartition(g)[1])]_vars

\* a Remove has succeeded and its shard directory still holds another hash
C9_Witness ==
    /\ last.op = "remove" /\ last.result = "ok"
    /\ get_file_directory(last.hash) \in DOMAIN fs
    /\ \E g \in DOMAIN fs[get_file_directory(last.hash)] :
          /\ rpartition(g)[1] # last.hash
          /\ Len(fs[get_file_directory(last.hash)][g]) > 0

(***************************************************************************)
(* C10  Slot state machine: an Upload that meets no I/O fault is rejected  *)
(* with DuplicateObject (ValueError) when the slot of its hash is Present  *)
(* and succeeds when it is Absent; an Upload of content b right after the  *)
(* Remove of the object of b's hash succeeds and returns that hash, and    *)
(* the object can be downloaded again.                                     *)
(***************************************************************************)
C10_SlotStateMachine ==
    [][/\ (Completed /\ CleanUpload(last'))
          => /\ Objects(fs, last'.hash) # {} => last'.result = "ValueError"
             /\ Objects(fs, last'.hash) = {} => last'.result = "ok"
       /\ (/\ last.op = "remove" /\ last.result = "ok"
           /\ Completed /\ CleanUpload(last')
           /\ Digest(last'.bytes) = last.hash)
          => /\ last'.result = "ok"
             /\ last'.hash = last.hash
             /\ DownloadSucceeds(fs', last.hash)]_vars

(***************************************************************************)
(* C11  A hash shorter than the shard-prefix length is refused: Download   *)
(* and Remove called with it end with InvalidHash, not with NotFound or    *)
(* success.                                                                *)
(***************************************************************************)
C11_InvalidHash ==
    (last.op \in {"download", "remove"} /\ Len(last.hash) < dir_len)
    => last.result = "InvalidHash"

(***************************************************************************)
(* C12  A successful Upload stores its object at shardDir(hash)/hash when  *)
(* the original filename has no '.', and at shardDir(hash)/(hash + "." +   *)
(* the text after the last '.') when it has one.                           *)
(***************************************************************************)
\* the extension of a filename: empty without a '.', else what follows the last
ExtensionOf(name) ==
    IF \A i \in 1..Len(name) : name[i] # "." THEN <<>>
    ELSE LET k == CHOOSE i \in 1..Len(name) :
                     name[i] = "." /\ \A j \in (i + 1)..Len(name) : name[j] # "."
         IN  SubSeq(name, k + 1, Len(name))

\* objectPath of the Path Resolver: no dot appended to an empty extension
objectPath(h, extension) ==
    <<get_file_directory(h),
      IF extension = <<>> THEN h ELSE h \o <<".">> \o extension>>

C12_ExtensionPath ==
    (last.op = "upload" /\ last.result = "ok")
    => LET where == objectPath(last.hash, ExtensionOf(last.name))
       IN  /\ last.path = where
           /\ where[1] \in DOMAIN fs
           /\ where[2] \in DOMAIN fs[where[1]]

(***************************************************************************)
(* C13  Adapter mapping: for every hexadecimal hash string, also one whose *)
(* value is zero, the download and remove routes call the engine, answer   *)
(* with the success status exactly when the engine succeeded and with      *)
(* not-found when it ended with NotFound.                                  *)
(***************************************************************************)
C13_AdapterMapping ==
    (http.op \in {"download", "remove"} /\ int16(http.hash) # -1)
    => /\ http.called
       /\ last.op = http.op /\ last.hash = http.hash
       /\ http.status = 200 <=> last.result = "ok"
       /\ last.result = "FileNotFoundError" => http.status = 404

(***************************************************************************)
(* C14  Best-effort cleanup: a Remove that has deleted the object file     *)
(* ends with success, whatever becomes of the shard directory.             *)
(***************************************************************************)
C14_CleanupBestEffort ==
    [][\A p \in Procs :
          (/\ proc[p].op = "remove"
           /\ proc[p].pc \in {"r_is_empty", "r_rmdir"}
           /\ proc'[p].pc = "done")
          => proc'[p].result = "ok"]_vars

(***************************************************************************)
(* C15  Per-hash serialization: when a Download returns a path, the file   *)
(* at that path exists and no Upload is in the middle of writing it.       *)
(***************************************************************************)
C15_NoPartialRead ==
    [][\A p \in Procs :
          (/\ proc[p].pc = "d_exists"
           /\ proc'[p].pc = "done" /\ proc'[p].result = "ok")
          => /\ proc'[p].path[1] \in DOMAIN fs'
             /\ proc'[p].path[2] \in DOMAIN fs'[proc'[p].path[1]]
             /\ \A q \in Procs \ {p} :
                   ~(/\ proc[q].pc = "u_write"
                     /\ <<FileDir(q), FileName(q)>> = proc'[p].path)]_vars

(***************************************************************************)
(* C16  Different hashes of one shard: when two processes have each run    *)
(* one Upload on a store that was empty, with no I/O fault, and the two    *)
(* hashes differ and share the shard directory, both Uploads succeed.      *)
(***************************************************************************)
C16_SameShardUploads ==
    (/\ nops = 2
     /\ \A p \in Procs : proc[p].pc = "done" /\ CleanUpload(proc[p])
     /\ proc[1].hash # proc[2].hash
     /\ get_file_directory(proc[1].hash) = get_file_directory(proc[2].hash))
    => \A p \in Procs : proc[p].result = "ok"

(***************************************************************************)
(* C17  Write-failure atomicity: after an Upload whose write failed        *)
(* partway, no file of its hash is visible, Download of the hash ends with *)
(* NotFound, and the Upload tried again is not rejected as a duplicate.    *)
(***************************************************************************)
C17_WriteFailureAtomic ==
    (last.op = "upload" /\ last.fault = "write")
    => /\ Objects(fs, last.hash) = {}
       /\ DownloadNotFound(fs, last.hash)
       /\ UploadEffect(fs, hexdigest(get_file_hash(hsh[1], last.disk)),
                       last.name, last.bytes, "none")[2] # "ValueError"

=============================================================================
